---- MODULE Spec2Model ----
(***************************************************************************)
(* A model of the 2048 game of src/main.py: the Tile entity, the grid      *)
(* transition engine move(), spawn_tile(), can_move() and the main loop    *)
(* with its animating / merge_animation_running flags.                     *)
(***************************************************************************)
EXTENDS Integers, Sequences, FiniteSets, TLC

(* ---------------- program constants (src/main.py:7-23) ----------------- *)
WIDTH == 800
HEIGHT == 800
ROWS == 4
COLS == 4
RECT_WIDTH == WIDTH \div COLS
RECT_HEIGHT == HEIGHT \div ROWS
ANIMATION_SPEED == 30
MERGE_ANIM_DURATION == 8

(* ---------------- bounds of the model ---------------------------------- *)
\* an input grid that is not full holds at most MaxTiles tiles
MaxTiles == 3
\* a full input grid differs from a two-valued pattern in at most
\* MaxDeviations cells
MaxDeviations == 1
\* the deviating cells hold values 2^1 .. 2^MaxDevExp
MaxDevExp == 2
\* random.choice picks among the first MaxSpawnIdx entries of `available`
MaxSpawnIdx == 1
\* at most MaxEvents events are delivered in the event queue of one frame
MaxEvents == 2
\* the main loop is explored up to MaxMoves calls of move()
MaxMoves == 2

Directions == <<"left", "right", "up", "down">>
DirectionSet == {Directions[k] : k \in 1..Len(Directions)}
SpawnValues == {2, 4}

Cells == (0..(ROWS - 1)) \X (0..(COLS - 1))

RECURSIVE Pow2(_)
Pow2(n) == IF n = 0 THEN 1 ELSE 2 * Pow2(n - 1)

Abs(n) == IF n < 0 THEN -n ELSE n

\* the Python list whose n entries are f[1], ..., f[n]
RECURSIVE ListOf(_, _)
ListOf(f, n) == IF n = 0 THEN <<>> ELSE Append(ListOf(f, n - 1), f[n])

(* ---------------- Tile ------------------------------------------------- *)
Tile(value, row, col) ==
  [value |-> value, row |-> row, col |-> col,
   x |-> col * RECT_WIDTH, y |-> row * RECT_HEIGHT,
   target_x |-> col * RECT_WIDTH, target_y |-> row * RECT_HEIGHT,
   merged |-> FALSE, to_remove |-> FALSE, merge_anim_counter |-> 0]

\* the step of update_position without the snap onto the target
StepTowardNoSnap(p, target) ==
  IF target > p THEN p + ANIMATION_SPEED ELSE p - ANIMATION_SPEED

\* one coordinate of Tile.update_position: a fixed step, or the snap
StepToward(p, target) ==
  IF Abs(p - target) > ANIMATION_SPEED
  THEN (IF target > p THEN p + ANIMATION_SPEED ELSE p - ANIMATION_SPEED)
  ELSE target

\* update_position rewriting row and col as soon as the tile has arrived,
\* whatever its merge countdown
update_positionEager(t) ==
  LET moved == \/ Abs(t.x - t.target_x) > ANIMATION_SPEED
               \/ Abs(t.y - t.target_y) > ANIMATION_SPEED
  IN [tile |-> [t EXCEPT !.x = StepToward(t.x, t.target_x),
                         !.y = StepToward(t.y, t.target_y),
                         !.row = IF ~moved THEN t.target_y \div RECT_HEIGHT ELSE @,
                         !.col = IF ~moved THEN t.target_x \div RECT_WIDTH ELSE @],
      moved |-> moved]

update_position(t) ==
  LET moved == \/ Abs(t.x - t.target_x) > ANIMATION_SPEED
               \/ Abs(t.y - t.target_y) > ANIMATION_SPEED
      resync == ~moved /\ t.merge_anim_counter = 0
  IN [tile |-> [t EXCEPT !.x = StepToward(t.x, t.target_x),
                         !.y = StepToward(t.y, t.target_y),
                         !.row = IF resync THEN t.target_y \div RECT_HEIGHT ELSE @,
                         !.col = IF resync THEN t.target_x \div RECT_WIDTH ELSE @],
      moved |-> moved]

start_merge_animation(t) == [t EXCEPT !.merge_anim_counter = MERGE_ANIM_DURATION]

\* the state change of Tile.draw: the countdown at the end of the method
TileDraw(t) ==
  IF t.merge_anim_counter > 0
  THEN [t EXCEPT !.merge_anim_counter = @ - 1]
  ELSE t

draw(ts) == ListOf([i \in 1..Len(ts) |-> TileDraw(ts[i])], Len(ts))

(* ---------------- spawn_tile, can_move --------------------------------- *)
\* occupied computed as if the collection were empty
occupiedNone(ts) == {}

occupied(ts) == {<<ts[i].row, ts[i].col>> : i \in 1..Len(ts)}

\* the k-th cell (k = 0..ROWS*COLS-1) of `for r in range(ROWS) for c in range(COLS)`
RowMajor(k) == <<k \div COLS, k % COLS>>

RECURSIVE availableFrom(_, _)
availableFrom(occ, k) ==
  IF k = ROWS * COLS THEN <<>>
  ELSE IF RowMajor(k) \in occ THEN availableFrom(occ, k + 1)
       ELSE <<RowMajor(k)>> \o availableFrom(occ, k + 1)

available(ts) == availableFrom(occupied(ts), 0)

\* spawn_tile with its two random draws made explicit: idx is the index
\* random.choice takes in `available`, new_value the value drawn
spawn_tile(ts, idx, new_value) ==
  LET av == available(ts) IN
  IF Len(av) = 0 THEN [tiles |-> ts, ret |-> FALSE]
  ELSE [tiles |-> Append(ts, Tile(new_value, av[idx][1], av[idx][2])),
        ret |-> TRUE]

\* grid[t.row][t.col] = t.value for t in tiles: the last tile of a cell wins
ValueGrid(ts) ==
  [cell \in Cells |->
     LET S == {i \in 1..Len(ts) : ts[i].row = cell[1] /\ ts[i].col = cell[2]}
     IN IF S = {} THEN 0 ELSE ts[CHOOSE i \in S : \A j \in S : j <= i].value]

\* can_move comparing right neighbours only
can_moveRightOnly(ts) ==
  IF Len(ts) < ROWS * COLS THEN TRUE
  ELSE LET grid == ValueGrid(ts) IN
       \E r \in 0..(ROWS - 1), c \in 0..(COLS - 1) :
          c + 1 < COLS /\ grid[<<r, c>>] = grid[<<r, c + 1>>]

\* can_move comparing the neighbours below only
can_moveDownOnly(ts) ==
  IF Len(ts) < ROWS * COLS THEN TRUE
  ELSE LET grid == ValueGrid(ts) IN
       \E r \in 0..(ROWS - 1), c \in 0..(COLS - 1) :
          r + 1 < ROWS /\ grid[<<r, c>>] = grid[<<r + 1, c>>]

\* can_move deciding by the number of tiles alone
can_moveCountOnly(ts) == Len(ts) < ROWS * COLS

can_move(ts) ==
  IF Len(ts) < ROWS * COLS THEN TRUE
  ELSE LET grid == ValueGrid(ts) IN
       \E r \in 0..(ROWS - 1), c \in 0..(COLS - 1) :
          \/ c + 1 < COLS /\ grid[<<r, c>>] = grid[<<r, c + 1>>]
          \/ r + 1 < ROWS /\ grid[<<r, c>>] = grid[<<r + 1, c>>]

(* ---------------- move ------------------------------------------------- *)
reset_merged_flags(ts) ==
  ListOf([i \in 1..Len(ts) |->
            [ts[i] EXCEPT !.merged = FALSE, !.to_remove = FALSE]], Len(ts))

\* grid[t.row][t.col] = t: the grid holds tile indices, 0 is None
BuildGrid(ts) ==
  [cell \in Cells |->
     LET S == {i \in 1..Len(ts) : ts[i].row = cell[1] /\ ts[i].col = cell[2]}
     IN IF S = {} THEN 0 ELSE CHOOSE i \in S : \A j \in S : j <= i]

\* traverse() returning the row-major order for every direction
traverseRowMajor(direction, k) == <<k \div COLS, k % COLS>>

\* the k-th cell (k = 0..ROWS*COLS-1) of the list traverse() returns
traverse(direction, k) ==
  CASE direction = "left"  -> <<k \div COLS, k % COLS>>
    [] direction = "right" -> <<k \div COLS, (COLS - 1) - (k % COLS)>>
    [] direction = "up"    -> <<k % ROWS, k \div ROWS>>
    [] direction = "down"  -> <<(ROWS - 1) - (k % ROWS), k \div ROWS>>

next_pos(direction, r, c) ==
  CASE direction = "left"  -> <<r, c - 1>>
    [] direction = "right" -> <<r, c + 1>>
    [] direction = "up"    -> <<r - 1, c>>
    [] direction = "down"  -> <<r + 1, c>>

within(r, c) == 0 <= r /\ r < ROWS /\ 0 <= c /\ c < COLS

\* lines 210-211: the target of tile i is its final cell
SetTarget(st, i, r, c) ==
  [st EXCEPT !.tiles[i].target_x = c * RECT_WIDTH,
             !.tiles[i].target_y = r * RECT_HEIGHT]

\* the merge branch without `tile.to_remove = True`
MergeIntoKeep(st, i, j, r, c) ==
  [st EXCEPT !.tiles[j] = start_merge_animation(
                             [@ EXCEPT !.value = 2 * @, !.merged = TRUE]),
             !.grid[<<r, c>>] = 0,
             !.moved = TRUE,
             !.log = Append(@, [from |-> i, into |-> j, v |-> st.tiles[i].value])]

\* the merge branch with `next_tile.value += 2`
MergeIntoPlusTwo(st, i, j, r, c) ==
  LET v == st.tiles[i].value
      t1 == [st.tiles EXCEPT ![j] = start_merge_animation(
                                [@ EXCEPT !.value = @ + 2, !.merged = TRUE])]
      t2 == [t1 EXCEPT ![i].to_remove = TRUE]
  IN [st EXCEPT !.tiles = t2,
                !.grid[<<r, c>>] = 0,
                !.moved = TRUE,
                !.log = Append(@, [from |-> i, into |-> j, v |-> v])]

\* the merge branch, lines 197-205; log records (from, into, value) of the merge
MergeInto(st, i, j, r, c) ==
  LET v == st.tiles[i].value
      t1 == [st.tiles EXCEPT ![j] = start_merge_animation(
                                [@ EXCEPT !.value = 2 * @, !.merged = TRUE])]
      t2 == [t1 EXCEPT ![i].to_remove = TRUE]
  IN [st EXCEPT !.tiles = t2,
                !.grid[<<r, c>>] = 0,
                !.moved = TRUE,
                !.log = Append(@, [from |-> i, into |-> j, v |-> v])]

\* the merge test without `not next_tile.merged`
CanMergeAgain(tile, next_tile) ==
  next_tile.value = tile.value /\ ~tile.merged

CanMerge(tile, next_tile) ==
  next_tile.value = tile.value /\ ~tile.merged /\ ~next_tile.merged

\* the empty-cell branch without `moved = True`
StepIntoSilent(st, i, r, c, nr, nc) ==
  [st EXCEPT !.grid = [@ EXCEPT ![<<nr, nc>>] = i, ![<<r, c>>] = 0]]

\* the empty-cell branch, lines 191-196: tile i steps from (r, c) to (nr, nc)
StepInto(st, i, r, c, nr, nc) ==
  [st EXCEPT !.grid = [@ EXCEPT ![<<nr, nc>>] = i, ![<<r, c>>] = 0],
             !.moved = TRUE]

\* the `while True` loop of lines 186-208 for tile i standing at (r, c)
RECURSIVE slide(_, _, _, _, _)
slide(st, direction, i, r, c) ==
  LET np == next_pos(direction, r, c)
      nr == np[1]
      nc == np[2]
  IN IF ~within(nr, nc) THEN SetTarget(st, i, r, c)
     ELSE LET j == st.grid[<<nr, nc>>] IN
          IF j = 0
          THEN slide(StepInto(st, i, r, c, nr, nc), direction, i, nr, nc)
          ELSE IF CanMerge(st.tiles[i], st.tiles[j])
               THEN SetTarget(MergeInto(st, i, j, r, c), i, r, c)
               ELSE SetTarget(st, i, r, c)

\* the `for r, c in traverse()` loop of lines 181-211, from its k-th cell on
RECURSIVE moveLoop(_, _, _)
moveLoop(st, direction, k) ==
  IF k = ROWS * COLS THEN st
  ELSE LET cell == traverse(direction, k)
           i == st.grid[cell]
       IN IF i = 0 THEN moveLoop(st, direction, k + 1)
          ELSE moveLoop(slide(st, direction, i, cell[1], cell[2]),
                        direction, k + 1)

\* a purge that keeps every tile
PurgeNothing(ts, n) == ListOf(ts, n)

\* line 214: [t for t in tiles if not t.to_remove], over the first n tiles
RECURSIVE Purge(_, _)
Purge(ts, n) ==
  IF n = 0 THEN <<>>
  ELSE IF ts[n].to_remove THEN Purge(ts, n - 1)
       ELSE Append(Purge(ts, n - 1), ts[n])

\* move with `moved = True` set on every call
moveAlwaysMoved(ts, direction) ==
  LET st == moveLoop([tiles |-> reset_merged_flags(ts),
                      grid |-> BuildGrid(ts),
                      moved |-> FALSE,
                      log |-> <<>>], direction, 0)
  IN [tiles |-> Purge(st.tiles, Len(ts)),
      all |-> ListOf(st.tiles, Len(ts)),
      moved |-> TRUE,
      log |-> st.log]

\* move(tiles, direction): tiles is the collection after the purge, all the
\* collection before it, moved the return value, log the merges in order
move(ts, direction) ==
  LET st == moveLoop([tiles |-> reset_merged_flags(ts),
                      grid |-> BuildGrid(ts),
                      moved |-> FALSE,
                      log |-> <<>>], direction, 0)
  IN [tiles |-> Purge(st.tiles, Len(ts)),
      all |-> ListOf(st.tiles, Len(ts)),
      moved |-> st.moved,
      log |-> st.log]

(* ---------------- state ------------------------------------------------ *)
VARIABLES
  tiles,                    \* the live collection, a sequence of Tile records
  running,                  \* main: running
  animating,                \* main: animating
  merge_animation_running,  \* main: merge_animation_running
  pc,                       \* position in the loop body / in the harness
  pending,                  \* events of this frame's queue not yet handled
  call,                     \* the last call of move / spawn_tile / can_move
  nMoves,                   \* calls of move() so far
  nSuccess,                 \* calls of move() that returned True
  nSettle,                  \* settling steps so far
  nSpawn                    \* tiles spawned after the initial two

vars == <<tiles, running, animating, merge_animation_running, pc, pending,
          call, nMoves, nSuccess, nSettle, nSpawn>>

NoCall == [op |-> "none", dir |-> "", pre |-> <<>>, all |-> <<>>,
           ret |-> FALSE, log |-> <<>>]

MoveCall(ts, direction, res) ==
  [op |-> "move", dir |-> direction, pre |-> ts, all |-> res.all,
   ret |-> res.moved, log |-> res.log]

SpawnCall(ts, res) ==
  [op |-> "spawn_tile", dir |-> "", pre |-> ts, all |-> res.tiles,
   ret |-> res.ret, log |-> <<>>]

CanMoveCall(ts) ==
  [op |-> "can_move", dir |-> "", pre |-> ts, all |-> ts,
   ret |-> can_move(ts), log |-> <<>>]

\* the index random.choice may take: any entry of `available`, here one of
\* the first MaxSpawnIdx; 1 stands for "no draw" when nothing is available
SpawnIdx(ts) ==
  LET n == Len(available(ts)) IN
  IF n = 0 THEN {1} ELSE {k \in 1..MaxSpawnIdx : k <= n}

(* ---------------- the main loop ---------------------------------------- *)
\* lines 219-227: two initial spawns into the empty collection
Init ==
  \E i1 \in SpawnIdx(<<>>), v1 \in SpawnValues :
    LET s1 == spawn_tile(<<>>, i1, v1) IN
    \E i2 \in SpawnIdx(s1.tiles), v2 \in SpawnValues :
      /\ tiles = spawn_tile(s1.tiles, i2, v2).tiles
      /\ running = TRUE
      /\ animating = FALSE
      /\ merge_animation_running = FALSE
      /\ pc = "frame"
      /\ pending = 0
      /\ call = NoCall
      /\ nMoves = 0
      /\ nSuccess = 0
      /\ nSettle = 0
      /\ nSpawn = 0

\* line 232 true, line 233: the queue of this frame holds n events
PollEvents(n) ==
  /\ pc = "frame" /\ running
  /\ ~animating /\ ~merge_animation_running
  /\ pc' = "events"
  /\ pending' = n
  /\ UNCHANGED <<tiles, running, animating, merge_animation_running, call,
                 nMoves, nSuccess, nSettle, nSpawn>>

\* lines 237-251: the handling of a KEYDOWN event of an arrow key
HandleKey(direction) ==
  /\ pc = "events" /\ pending > 0
  /\ LET res == move(tiles, direction) IN
       /\ tiles' = res.tiles
       /\ animating' = (IF res.moved THEN TRUE ELSE animating)
       /\ call' = MoveCall(tiles, direction, res)
       /\ nSuccess' = (IF res.moved THEN nSuccess + 1 ELSE nSuccess)
  /\ nMoves' = nMoves + 1
  /\ pending' = pending - 1
  /\ UNCHANGED <<running, merge_animation_running, pc, nSettle, nSpawn>>

\* the handler with `animating = True` outside the `if moved`
KeyDownAlwaysAnimates(direction) ==
  /\ pc = "events" /\ pending > 0
  /\ nMoves < MaxMoves
  /\ LET res == move(tiles, direction) IN
       /\ tiles' = res.tiles
       /\ animating' = TRUE
       /\ call' = MoveCall(tiles, direction, res)
       /\ nSuccess' = (IF res.moved THEN nSuccess + 1 ELSE nSuccess)
  /\ nMoves' = nMoves + 1
  /\ pending' = pending - 1
  /\ UNCHANGED <<running, merge_animation_running, pc, nSettle, nSpawn>>

\* lines 237-251: a KEYDOWN event of an arrow key, up to MaxMoves of them
KeyDown(direction) ==
  /\ nMoves < MaxMoves
  /\ HandleKey(direction)

\* lines 237-248: a KEYDOWN event of another key (direction stays None),
\* or an event that is neither QUIT nor KEYDOWN
KeyOther ==
  /\ pc = "events" /\ pending > 0
  /\ pending' = pending - 1
  /\ UNCHANGED <<tiles, running, animating, merge_animation_running, pc,
                 call, nMoves, nSuccess, nSettle, nSpawn>>

\* lines 234-236: QUIT ends the loop over the queue
QuitEvent ==
  /\ pc = "events" /\ pending > 0
  /\ running' = FALSE
  /\ pending' = 0
  /\ UNCHANGED <<tiles, animating, merge_animation_running, pc, call,
                 nMoves, nSuccess, nSettle, nSpawn>>

\* line 300 of a frame that took the branch of line 232, then line 229
EndIdleFrame ==
  /\ pc = "events" /\ pending = 0
  /\ tiles' = draw(tiles)
  /\ pc' = (IF running THEN "frame" ELSE "exit")
  /\ UNCHANGED <<running, animating, merge_animation_running, pending, call,
                 nMoves, nSuccess, nSettle, nSpawn>>

\* lines 254-257
Updated(ts) ==
  ListOf([i \in 1..Len(ts) |-> update_position(ts[i]).tile], Len(ts))
AnyMoving(ts) == \E i \in 1..Len(ts) : update_position(ts[i]).moved

\* lines 268-270
MergeStep(ts) ==
  ListOf([i \in 1..Len(ts) |->
     IF ts[i].merge_anim_counter > 0
     THEN [ts[i] EXCEPT !.merge_anim_counter = @ - 1]
     ELSE ts[i]], Len(ts))

AllMergesDone(ts) == \A i \in 1..Len(ts) : ts[i].merge_anim_counter = 0

\* lines 260-264: the flag as it stands at line 266
MergeRunning(ts) ==
  \/ merge_animation_running
  \/ \E i \in 1..Len(ts) : ts[i].merge_anim_counter > 0

\* the collection as it stands when line 272 / line 284 is reached
AfterMergeStep(ts) == IF MergeRunning(ts) THEN MergeStep(ts) ELSE ts

\* lines 276-278 and 287-289
Resync(ts) ==
  ListOf([i \in 1..Len(ts) |->
     [ts[i] EXCEPT !.row = ts[i].target_y \div RECT_HEIGHT,
                   !.col = ts[i].target_x \div RECT_WIDTH]], Len(ts))

\* lines 295-298 and 300, then line 229: quit says whether QUIT is queued
\* stillRunning is False when line 283 / 293 ended the game ("Game Over!"
\* has been printed): the loop is then left at "gameover", on QUIT at "exit"
EndAnimFrame(ts, stillRunning, quit) ==
  /\ tiles' = draw(ts)
  /\ running' = (stillRunning /\ ~quit)
  /\ pc' = (IF ~stillRunning THEN "gameover"
            ELSE IF quit THEN "exit" ELSE "frame")

AnimGuard ==
  /\ pc = "frame" /\ running
  /\ animating \/ merge_animation_running

\* a frame of the else branch in which some tile is still sliding
\* (in the three frame actions each intermediate collection is bound by \E
\* to its one value)
SlideFrame(quit) ==
  /\ AnimGuard
  /\ AnyMoving(tiles)
  /\ \E us \in {Updated(tiles)} : EndAnimFrame(us, TRUE, quit)
  /\ UNCHANGED <<animating, merge_animation_running, pending, call,
                 nMoves, nSuccess, nSettle, nSpawn>>

\* a frame in which no tile slides and a merge countdown is still running
MergeFrame(quit) ==
  /\ AnimGuard
  /\ ~AnyMoving(tiles)
  /\ \E us \in {Updated(tiles)} :
       /\ MergeRunning(us)
       /\ \E ms \in {MergeStep(us)} :
            /\ ~AllMergesDone(ms)
            /\ EndAnimFrame(ms, TRUE, quit)
  /\ merge_animation_running' = TRUE
  /\ UNCHANGED <<animating, pending, call, nMoves, nSuccess, nSettle, nSpawn>>

\* a frame that settles: lines 272-283 or 284-293; ts is the collection
\* after the resync, res the outcome of spawn_tile
SettleFrame(idx, new_value, quit) ==
  /\ AnimGuard
  /\ ~AnyMoving(tiles)
  /\ \E us \in {Updated(tiles)} : \E ms \in {AfterMergeStep(us)} :
       /\ AllMergesDone(ms)
       /\ \E ts \in {Resync(ms)} :
            /\ idx \in SpawnIdx(ts)
            /\ \E res \in {spawn_tile(ts, idx, new_value)} :
                 /\ EndAnimFrame(res.tiles, can_move(res.tiles), quit)
                 /\ call' = SpawnCall(ts, res)
                 /\ nSpawn' = (IF res.ret THEN nSpawn + 1 ELSE nSpawn)
  /\ animating' = FALSE
  /\ merge_animation_running' = FALSE
  /\ nSettle' = nSettle + 1
  /\ UNCHANGED <<pending, nMoves, nSuccess>>

Next ==
  \/ \E n \in 0..MaxEvents : PollEvents(n)
  \/ \E d \in DirectionSet : KeyDown(d)
  \/ KeyOther
  \/ QuitEvent
  \/ EndIdleFrame
  \/ \E quit \in BOOLEAN : SlideFrame(quit)
  \/ \E quit \in BOOLEAN : MergeFrame(quit)
  \/ \E idx \in 1..MaxSpawnIdx, v \in SpawnValues, quit \in BOOLEAN :
       SettleFrame(idx, v, quit)

Spec == Init /\ [][Next]_vars

\* line 229: while the loop runs it goes on: the rest of the event queue is
\* read, the animation branch is executed and the frame is drawn. Pressing
\* a key is the player's step and no fairness is asked of it.
LoopStep ==
  \/ KeyOther
  \/ QuitEvent
  \/ EndIdleFrame
  \/ \E quit \in BOOLEAN : SlideFrame(quit)
  \/ \E quit \in BOOLEAN : MergeFrame(quit)
  \/ \E idx \in 1..MaxSpawnIdx, v \in SpawnValues, quit \in BOOLEAN :
       SettleFrame(idx, v, quit)

FairSpec == Spec /\ WF_vars(LoopStep)

(* ---------------- the main loop after a fixed opening ------------------ *)
\* A game played from the two initial spawns to a grid of 15 tiles: the keys
\* pressed (one per Idle frame) and the value of the tile spawned after each;
\* every spawn of the opening lands on the first entry of `available`.
Opening ==
  << [dir |-> "down",  value |-> 4], [dir |-> "up",    value |-> 4],
     [dir |-> "down",  value |-> 2], [dir |-> "right", value |-> 2],
     [dir |-> "down",  value |-> 4], [dir |-> "down",  value |-> 4],
     [dir |-> "up",    value |-> 2], [dir |-> "down",  value |-> 2],
     [dir |-> "up",    value |-> 4], [dir |-> "down",  value |-> 4],
     [dir |-> "up",    value |-> 4], [dir |-> "down",  value |-> 4],
     [dir |-> "down",  value |-> 2], [dir |-> "up",    value |-> 2],
     [dir |-> "down",  value |-> 4] >>

InOpening == nSettle < Len(Opening)

\* the two initial spawns of the opening: a 2 at (0, 0) and a 4 at (0, 1)
InitLate ==
  /\ Init
  /\ tiles = spawn_tile(spawn_tile(<<>>, 1, 2).tiles, 1, 4).tiles

LatePollEvents(n) ==
  /\ InOpening => n = 1
  /\ PollEvents(n)

\* the keys of the opening, then up to MaxMoves keys of any direction
LateKeyDown(direction) ==
  /\ IF InOpening
     THEN nMoves = nSettle /\ direction = Opening[nMoves + 1].dir
     ELSE nMoves < Len(Opening) + MaxMoves
  /\ HandleKey(direction)

LateKeyOther == ~InOpening /\ KeyOther

LateQuitEvent == ~InOpening /\ QuitEvent

LateSlideFrame(quit) ==
  /\ InOpening => ~quit
  /\ SlideFrame(quit)

LateMergeFrame(quit) ==
  /\ InOpening => ~quit
  /\ MergeFrame(quit)

LateSettleFrame(idx, new_value, quit) ==
  /\ InOpening => (idx = 1 /\ new_value = Opening[nSettle + 1].value /\ ~quit)
  /\ SettleFrame(idx, new_value, quit)

NextLate ==
  \/ \E n \in 0..MaxEvents : LatePollEvents(n)
  \/ \E d \in DirectionSet : LateKeyDown(d)
  \/ LateKeyOther
  \/ LateQuitEvent
  \/ EndIdleFrame
  \/ \E quit \in BOOLEAN : LateSlideFrame(quit)
  \/ \E quit \in BOOLEAN : LateMergeFrame(quit)
  \/ \E idx \in 1..MaxSpawnIdx, v \in SpawnValues, quit \in BOOLEAN :
       LateSettleFrame(idx, v, quit)

SpecLate == InitLate /\ [][NextLate]_vars

\* the loop's own steps of the late game, as in LoopStep
LateLoopStep ==
  \/ LateKeyOther
  \/ LateQuitEvent
  \/ EndIdleFrame
  \/ \E quit \in BOOLEAN : LateSlideFrame(quit)
  \/ \E quit \in BOOLEAN : LateMergeFrame(quit)
  \/ \E idx \in 1..MaxSpawnIdx, v \in SpawnValues, quit \in BOOLEAN :
       LateSettleFrame(idx, v, quit)

FairSpecLate == SpecLate /\ WF_vars(LateLoopStep)

(* ---------------- the functions on bounded input grids ----------------- *)
DeviationValues == {Pow2(e) : e \in 1..MaxDevExp}

\* the tiles of a grid g (a function from a set of cells to values), as
\* Tile(value, row, col) objects in row-major order
RECURSIVE TilesOfFrom(_, _)
TilesOfFrom(g, k) ==
  IF k = ROWS * COLS THEN <<>>
  ELSE IF RowMajor(k) \in DOMAIN g
       THEN <<Tile(g[RowMajor(k)], RowMajor(k)[1], RowMajor(k)[2])>>
              \o TilesOfFrom(g, k + 1)
       ELSE TilesOfFrom(g, k + 1)

TilesOf(g) == TilesOfFrom(g, 0)

FnRest ==
  /\ running = TRUE
  /\ animating = FALSE
  /\ merge_animation_running = FALSE
  /\ pc = "call"
  /\ pending = 0
  /\ call = NoCall
  /\ nMoves = 0
  /\ nSuccess = 0
  /\ nSettle = 0
  /\ nSpawn = 0

\* a full grid of 2s and 4s: a checkerboard (a = b = 1), column stripes
\* (a = 0, b = 1), row stripes (a = 1, b = 0) or one value (a = b = 0)
Pattern(a, b, p) ==
  [cell \in Cells |->
     IF (a * cell[1] + b * cell[2] + p) % 2 = 0 THEN 2 ELSE 4]

\* grid g with the cells of h replaced by the values of h
Overlay(g, h) ==
  [cell \in (DOMAIN g) \cup (DOMAIN h) |->
     IF cell \in DOMAIN h THEN h[cell] ELSE g[cell]]

\* input grids: at most MaxTiles freshly spawned tiles anywhere, or a full
\* grid that differs from a pattern in at most MaxDeviations cells
InitFn ==
  /\ \/ \E S \in SUBSET Cells :
          /\ Cardinality(S) <= MaxTiles
          /\ \E g \in [S -> SpawnValues] : tiles = TilesOf(g)
     \/ \E S \in SUBSET Cells, a \in 0..1, b \in 0..1, p \in 0..1 :
          /\ Cardinality(S) <= MaxDeviations
          /\ \E h \in [S -> DeviationValues] :
               tiles = TilesOf(Overlay(Pattern(a, b, p), h))
  /\ FnRest

FnUnchanged ==
  UNCHANGED <<running, animating, merge_animation_running, pending,
              nMoves, nSuccess, nSettle, nSpawn>>

FnMove(direction) ==
  /\ pc = "call"
  /\ LET res == move(tiles, direction) IN
       /\ tiles' = res.tiles
       /\ call' = MoveCall(tiles, direction, res)
  /\ pc' = "ret"
  /\ FnUnchanged

\* values a caller may pass that are none of the four directions
OtherDirections == {"LEFT", "diagonal"}

\* lines 158-166: traverse() falls off its if chain and returns None
traverseReturnsNone(direction) == direction \notin DirectionSet

\* move() with such a value: line 150 has reset the flags, then the for
\* statement of line 181 raises TypeError (None is not iterable)
FnMoveOther(direction) ==
  /\ pc = "call"
  /\ traverseReturnsNone(direction)
  /\ tiles' = reset_merged_flags(tiles)
  /\ call' = [op |-> "move", dir |-> direction, pre |-> tiles,
              all |-> reset_merged_flags(tiles), ret |-> FALSE, log |-> <<>>]
  /\ pc' = "raised"
  /\ FnUnchanged

FnSpawn(idx, new_value) ==
  /\ pc = "call"
  /\ idx \in SpawnIdx(tiles)
  /\ LET res == spawn_tile(tiles, idx, new_value) IN
       /\ tiles' = res.tiles
       /\ call' = SpawnCall(tiles, res)
  /\ pc' = "ret"
  /\ FnUnchanged

FnCanMove ==
  /\ pc = "call"
  /\ call' = CanMoveCall(tiles)
  /\ pc' = "ret"
  /\ UNCHANGED tiles
  /\ FnUnchanged

NextFn ==
  \/ \E d \in DirectionSet : FnMove(d)
  \/ \E d \in OtherDirections : FnMoveOther(d)
  \/ \E idx \in 1..MaxSpawnIdx, v \in SpawnValues : FnSpawn(idx, v)
  \/ FnCanMove

SpecFn == InitFn /\ [][NextFn]_vars

(* ====================== properties of the functions ==================== *)
RECURSIVE SumValuesTo(_, _)
SumValuesTo(ts, n) == IF n = 0 THEN 0 ELSE ts[n].value + SumValuesTo(ts, n - 1)
SumValues(ts) == SumValuesTo(ts, Len(ts))

TargetCell(t) == <<t.target_y \div RECT_HEIGHT, t.target_x \div RECT_WIDTH>>
LogicalCell(t) == <<t.row, t.col>>

\* the merges of the last move() in which tile i of the input took part
MergesOf(i) ==
  {k \in 1..Len(call.log) : call.log[k].from = i \/ call.log[k].into = i}

\* C1: within one call of move() no tile takes part in more than one merge:
\* a tile is doubled at most once, and a doubled tile is not merged away
C1_NoTileMergesTwice ==
  call.op = "move" =>
    \A i \in 1..Len(call.pre) :
      /\ Cardinality(MergesOf(i)) <= 1
      /\ call.all[i].value \in {call.pre[i].value, 2 * call.pre[i].value}
      /\ call.all[i].merged => ~call.all[i].to_remove

\* three equal tiles in a line: after the move a doubled tile stands next to
\* a tile of its new value that it did not absorb
C1_Witness ==
  /\ call.op = "move"
  /\ Len(call.log) >= 1
  /\ \E i, j \in 1..Len(tiles) :
       /\ tiles[i].merged /\ ~tiles[j].merged
       /\ tiles[i].value = tiles[j].value
       /\ tiles[i].target_y = tiles[j].target_y
       /\ Abs(tiles[i].target_x - tiles[j].target_x) = RECT_WIDTH
       /\ call.dir \in {"left", "right"}

\* C3: move() conserves the sum of the values; each merge turns two live
\* tiles of value V into one of value 2V, the merged-from tile is purged, and
\* the number of live tiles drops by the number of merges
C3_MassConserved ==
  call.op = "move" =>
    /\ SumValues(tiles) = SumValues(call.pre)
    /\ Len(tiles) = Len(call.pre) - Len(call.log)
    /\ Len(tiles) = Cardinality({i \in 1..Len(call.all) : ~call.all[i].to_remove})
    /\ \A k \in 1..Len(call.log) :
         LET m == call.log[k] IN
           /\ call.pre[m.from].value = m.v
           /\ call.pre[m.into].value = m.v
           /\ call.all[m.into].value = 2 * m.v
           /\ call.all[m.from].to_remove
           /\ ~call.all[m.into].to_remove
    /\ \A i \in 1..Len(call.pre) :
         MergesOf(i) = {} =>
           /\ call.all[i].value = call.pre[i].value
           /\ ~call.all[i].to_remove

\* several merges in one call, two of them in the same line
C3_Witness ==
  /\ call.op = "move"
  /\ Len(tiles) < Len(call.pre) - 1
  /\ \E k, l \in 1..Len(call.log) :
       /\ k # l
       /\ call.pre[call.log[k].into].row = call.pre[call.log[l].into].row
       /\ call.dir \in {"left", "right"}

GridBefore(ts) == {<<ts[i].row, ts[i].col, ts[i].value>> : i \in 1..Len(ts)}
GridAfter(ts) ==
  {<<TargetCell(ts[i])[1], TargetCell(ts[i])[2], ts[i].value>> : i \in 1..Len(ts)}

\* C4: move() returns False iff the grid after the call (target cells and
\* values) equals the grid before it; it returns True exactly when a tile
\* changed cell or a merge happened
C4_ReturnIffChanged ==
  call.op = "move" =>
    /\ (call.ret = FALSE) <=> (GridAfter(tiles) = GridBefore(call.pre))
    /\ call.ret <=>
         \/ Len(call.log) > 0
         \/ \E i \in 1..Len(call.pre) :
              TargetCell(call.all[i]) # LogicalCell(call.pre[i])

\* a blocked line: several tiles, an empty cell, and nothing moves
C4_Witness ==
  /\ call.op = "move"
  /\ call.ret = FALSE
  /\ Len(call.pre) = 3
  /\ \E i, j \in 1..3 : i # j /\ call.pre[i].value = call.pre[j].value
                        /\ call.pre[i].row = call.pre[j].row

\* the cell-based reading of the grid, for collections with one tile per cell
ValueAt(ts, cell) ==
  IF cell \in occupied(ts)
  THEN ts[CHOOSE i \in 1..Len(ts) : LogicalCell(ts[i]) = cell].value
  ELSE 0

Adjacent(a, b) == Abs(a[1] - b[1]) + Abs(a[2] - b[2]) = 1

NoEmptyCell(ts) == \A cell \in Cells : \E i \in 1..Len(ts) : LogicalCell(ts[i]) = cell

NoEqualNeighbours(ts) ==
  \A i, j \in 1..Len(ts) :
    Adjacent(LogicalCell(ts[i]), LogicalCell(ts[j])) => ts[i].value # ts[j].value

\* C5: can_move returns False iff the grid has no empty cell and no two
\* orthogonally adjacent cells hold equal values
C5_CanMoveIff ==
  call.op = "can_move" =>
    ((call.ret = FALSE) <=> (NoEmptyCell(call.pre) /\ NoEqualNeighbours(call.pre)))

\* a full grid whose only equal neighbours are one above the other
C5_Witness ==
  /\ call.op = "can_move"
  /\ call.ret = TRUE
  /\ NoEmptyCell(call.pre)
  /\ \A i, j \in 1..Len(call.pre) :
       (call.pre[i].row = call.pre[j].row
          /\ Abs(call.pre[i].col - call.pre[j].col) = 1)
       => call.pre[i].value # call.pre[j].value

\* C10: spawn_tile on a grid without empty cell returns False and changes
\* nothing; otherwise it returns True and appends one tile of value 2 or 4 on
\* a cell that was empty, leaving the existing tiles unchanged
C10_SpawnTile ==
  call.op = "spawn_tile" =>
    IF NoEmptyCell(call.pre)
    THEN call.ret = FALSE /\ tiles = call.pre
    ELSE /\ call.ret = TRUE
         /\ Len(tiles) = Len(call.pre) + 1
         /\ SubSeq(tiles, 1, Len(call.pre)) = call.pre
         /\ tiles[Len(tiles)].value \in {2, 4}
         /\ LogicalCell(tiles[Len(tiles)]) \in Cells
         /\ \A i \in 1..Len(call.pre) :
              LogicalCell(call.pre[i]) # LogicalCell(tiles[Len(tiles)])

\* a spawn of a 4 next to existing tiles
C10_Witness ==
  /\ call.op = "spawn_tile"
  /\ call.ret = TRUE
  /\ Len(call.pre) >= 2
  /\ tiles[Len(tiles)].value = 4
  /\ tiles[Len(tiles)] = Tile(4, tiles[Len(tiles)].row, tiles[Len(tiles)].col)

\* the full grid: nothing is spawned
C10_WitnessFull ==
  /\ call.op = "spawn_tile"
  /\ call.ret = FALSE
  /\ Len(tiles) = ROWS * COLS

(* ====================== properties of the main loop ==================== *)
Idle == ~animating /\ ~merge_animation_running

TargetsDistinct(ts) ==
  \A i, j \in 1..Len(ts) : i # j => TargetCell(ts[i]) # TargetCell(ts[j])

CellsDistinct(ts) ==
  \A i, j \in 1..Len(ts) : i # j => LogicalCell(ts[i]) # LogicalCell(ts[j])

\* C2: no two live tiles have the same destination cell, and at rest no two
\* live tiles share a (row, col)
C2_OneTilePerCell ==
  /\ TargetsDistinct(tiles)
  /\ Idle => CellsDistinct(tiles)

\* at rest after a move with a merge has settled and its tile was spawned
C2_Witness ==
  /\ Idle /\ pc = "frame"
  /\ nSettle >= 1
  /\ Len(tiles) >= 2
  /\ \E i \in 1..Len(tiles) : tiles[i].merged

Consistent(ts) ==
  \A i \in 1..Len(ts) :
    /\ ts[i].x = ts[i].target_x
    /\ ts[i].y = ts[i].target_y
    /\ LogicalCell(ts[i]) = TargetCell(ts[i])
    /\ ts[i].merge_anim_counter = 0

MoveCalled == nMoves' # nMoves

\* C6: move() is called only in Idle: once a move has returned True no
\* further move() happens before it has settled
C6_MoveOnlyWhenIdle == [][MoveCalled => Idle]_vars

\* C7: every call of move() starts from a consistent grid
C7_MoveFromConsistentGrid == [][MoveCalled => Consistent(tiles)]_vars

\* C8: every successful move is settled (with exactly one spawn) before the
\* next call of move(); the spawns after the initial two are as many as the
\* settled successful moves
C8_OneSpawnPerMove ==
  /\ [][MoveCalled => nSuccess = nSettle]_vars
  /\ [](nSpawn = nSettle)
  /\ [](Idle => nSuccess = nSettle)

\* C9: an input for which move() returns False is a no-op: the flags of the
\* loop are left as they were (so Idle stays Idle), nothing is spawned or
\* settled, the collection keeps its tiles with their values, cells and
\* positions, and every target equals the current position
C9_FalseMoveIsNoOp ==
  [][(MoveCalled /\ ~call'.ret) =>
       /\ animating' = animating
       /\ merge_animation_running' = merge_animation_running
       /\ Idle => Idle'
       /\ running' = running
       /\ nSpawn' = nSpawn /\ nSettle' = nSettle
       /\ Len(tiles') = Len(tiles)
       /\ \A i \in 1..Len(tiles) :
            /\ tiles'[i].value = tiles[i].value
            /\ LogicalCell(tiles'[i]) = LogicalCell(tiles[i])
            /\ tiles'[i].x = tiles[i].x /\ tiles'[i].y = tiles[i].y
            /\ tiles'[i].merge_anim_counter = tiles[i].merge_anim_counter
            /\ tiles'[i].target_x = tiles'[i].x
            /\ tiles'[i].target_y = tiles'[i].y]_vars

\* in Idle, a key whose direction moves nothing has just been handled
C9_Witness ==
  /\ pc = "events"
  /\ call.op = "move" /\ call.ret = FALSE
  /\ Idle
  /\ nSuccess = nSettle
  /\ Len(tiles) >= 3

\* the terminal condition read from the cells: nothing can move when no cell
\* is empty and no two orthogonal neighbours are equal
Playable(ts) == ~(NoEmptyCell(ts) /\ NoEqualNeighbours(ts))

Settled == nSettle' # nSettle

\* C11: the loop ends with game over exactly at a settling step after whose
\* spawn the grid has no empty cell and no equal orthogonal neighbours;
\* running is then False and move() is never applied again
C11_GameOverIffStuck ==
  [][/\ Settled => ((pc' = "gameover") <=> ~Playable(tiles'))
     /\ (pc' = "gameover" /\ pc # "gameover") => (Settled /\ ~running')
     /\ pc = "gameover" => (~running /\ nMoves' = nMoves)]_vars

\* the game is over on a full grid
C11_Witness ==
  /\ pc = "gameover"
  /\ ~running
  /\ Len(tiles) = ROWS * COLS
  /\ call.op = "spawn_tile" /\ call.ret

RECURSIVE IsPowerOfTwo(_)
IsPowerOfTwo(n) ==
  IF n <= 1 THEN n = 1
  ELSE n % 2 = 0 /\ IsPowerOfTwo(n \div 2)

\* C12: the value of every live tile is a power of two, at least 2
C12_ValuesArePowersOfTwo ==
  \A i \in 1..Len(tiles) : tiles[i].value >= 2 /\ IsPowerOfTwo(tiles[i].value)

\* two spawned 4s have merged and the move has settled
C12_Witness ==
  /\ nSettle >= 1
  /\ \E i \in 1..Len(tiles) : tiles[i].value = 8

\* C18: the spawn of every settling step succeeds, and the collection never
\* holds more than ROWS*COLS tiles
C18_SettleSpawnSucceeds ==
  /\ [][Settled => (/\ call'.op = "spawn_tile"
                    /\ call'.ret
                    /\ Len(call'.pre) < ROWS * COLS
                    /\ nSpawn' = nSpawn + 1)]_vars
  /\ [](Len(tiles) <= ROWS * COLS)

\* a full grid was moved with a merge, and the settling step filled it again
C18_Witness ==
  /\ call.op = "spawn_tile" /\ call.ret
  /\ Len(call.pre) = ROWS * COLS - 1
  /\ \E i \in 1..Len(call.pre) : call.pre[i].merged
  /\ nMoves > Len(Opening) + 1

\* C13: a direction other than the four is rejected as a no-op: the call
\* raises no error and leaves the collection and the loop's flags unchanged
C13_InvalidDirectionIsNoOp ==
  (call.op = "move" /\ call.dir \notin DirectionSet) =>
    /\ pc # "raised"
    /\ tiles = call.pre
    /\ Idle /\ running

\* the classic 2048 reduction of one line, written independently of move():
\* the j-th cell (j = 0..) of line k counted from the wall tiles slide toward
LineCell(direction, k, j) ==
  CASE direction = "left"  -> <<k, j>>
    [] direction = "right" -> <<k, (COLS - 1) - j>>
    [] direction = "up"    -> <<j, k>>
    [] direction = "down"  -> <<(ROWS - 1) - j, k>>

LineLength(direction) == IF direction \in {"left", "right"} THEN COLS ELSE ROWS
LineCount(direction) == IF direction \in {"left", "right"} THEN ROWS ELSE COLS

RECURSIVE LineValuesFrom(_, _, _, _)
LineValuesFrom(ts, direction, k, j) ==
  IF j >= LineLength(direction) THEN <<>>
  ELSE <<ValueAt(ts, LineCell(direction, k, j))>>
         \o LineValuesFrom(ts, direction, k, j + 1)

RECURSIVE DropEmpty(_)
DropEmpty(vs) ==
  IF vs = <<>> THEN <<>>
  ELSE IF Head(vs) = 0 THEN DropEmpty(Tail(vs))
  ELSE <<Head(vs)>> \o DropEmpty(Tail(vs))

RECURSIVE MergePairs(_)
MergePairs(vs) ==
  IF Len(vs) < 2 THEN vs
  ELSE IF vs[1] = vs[2] THEN <<2 * vs[1]>> \o MergePairs(Tail(Tail(vs)))
  ELSE <<vs[1]>> \o MergePairs(Tail(vs))

ReduceLine(vs) == MergePairs(DropEmpty(vs))

ClassicGrid(ts, direction) ==
  UNION {LET line == ReduceLine(LineValuesFrom(ts, direction, k, 0)) IN
         {<<LineCell(direction, k, j - 1)[1], LineCell(direction, k, j - 1)[2],
            line[j]>> : j \in 1..Len(line)}
         : k \in 0..(LineCount(direction) - 1)}

\* C14: for each of the four directions and a grid with one tile per cell,
\* the grid move() produces (target cells and values of the tiles kept) is
\* the classic line reduction of every row (left/right) or column (up/down)
C14_ClassicLineReduction ==
  (call.op = "move" /\ call.dir \in DirectionSet /\ CellsDistinct(call.pre)) =>
    /\ GridAfter(tiles) = ClassicGrid(call.pre, call.dir)
    /\ Len(tiles) = Cardinality(ClassicGrid(call.pre, call.dir))

\* [2,2,2,_] reduced towards the wall the pair is nearest to: [4,2,_,_]
C14_Witness ==
  /\ call.op = "move" /\ call.dir \in DirectionSet
  /\ \E k \in 0..(LineCount(call.dir) - 1) :
       /\ LineValuesFrom(call.pre, call.dir, k, 0) = <<2, 2, 2, 0>>
       /\ {e \in GridAfter(tiles) :
             \E j \in 0..3 : <<e[1], e[2]>> = LineCell(call.dir, k, j)}
          = {<<LineCell(call.dir, k, 0)[1], LineCell(call.dir, k, 0)[2], 4>>,
             <<LineCell(call.dir, k, 1)[1], LineCell(call.dir, k, 1)[2], 2>>}

\* what one step of the loop takes off the merge countdown of tile i
CounterDrop(i) == tiles[i].merge_anim_counter - tiles'[i].merge_anim_counter

\* C15: over a frame a merge countdown drops by at most one, and it does not
\* drop in the frame of the move (the step that ends the event branch) nor
\* in a frame in which some tile is still sliding
C15_CountdownOncePerSettledFrame ==
  [][~MoveCalled =>
       \A i \in 1..Len(tiles) :
         /\ i <= Len(tiles')
         /\ CounterDrop(i) <= 1
         /\ (pc = "events" \/ AnyMoving(tiles)) => CounterDrop(i) = 0]_vars

\* the tile is within one step of its target: this frame's update_position
\* puts it on the target
Arrives(t) ==
  /\ Abs(t.x - t.target_x) <= ANIMATION_SPEED
  /\ Abs(t.y - t.target_y) <= ANIMATION_SPEED

OnTarget(t) == t.x = t.target_x /\ t.y = t.target_y

\* C16: move() leaves row and col alone; in a frame that does not settle a
\* tile's (row, col) changes only to its target cell, only when the tile is
\* on its target after the frame's update and its countdown is 0; in a frame
\* that settles every tile is on its target with countdown 0 when lines
\* 276-278 / 287-289 rewrite (row, col)
C16_ResyncOnlyWhenSettled ==
  [][/\ MoveCalled =>
          \A i \in 1..Len(tiles) :
             LogicalCell(call'.all[i]) = LogicalCell(tiles[i])
     /\ (~MoveCalled /\ ~Settled) =>
          \A i \in 1..Len(tiles) :
             LogicalCell(tiles'[i]) # LogicalCell(tiles[i]) =>
               /\ Arrives(tiles[i]) /\ OnTarget(tiles'[i])
               /\ tiles[i].merge_anim_counter = 0
               /\ LogicalCell(tiles'[i]) = TargetCell(tiles[i])
     /\ Settled =>
          \A i \in 1..Len(tiles) :
             /\ Arrives(tiles[i]) /\ OnTarget(tiles'[i])
             /\ AfterMergeStep(Updated(tiles))[i].merge_anim_counter = 0
             /\ LogicalCell(tiles'[i]) = TargetCell(tiles[i])]_vars

\* a merged tile arrived while its countdown was still running and another
\* tile still slides: its (row, col) is still the cell it left
C16_Witness ==
  /\ animating /\ pc = "frame"
  /\ \E i, j \in 1..Len(tiles) :
       /\ OnTarget(tiles[i]) /\ tiles[i].merged
       /\ LogicalCell(tiles[i]) # TargetCell(tiles[i])
       /\ ~OnTarget(tiles[j])

\* a tile resynchronised by update_position while another tile still slides
C16_WitnessPerTile ==
  /\ animating
  /\ \E i, j \in 1..Len(tiles) :
       /\ OnTarget(tiles[i]) /\ tiles[i].merge_anim_counter = 0
       /\ LogicalCell(tiles[i]) = TargetCell(tiles[i])
       /\ \E k \in 1..Len(call.all) :
            /\ TargetCell(call.all[k]) = TargetCell(tiles[i])
            /\ ~call.all[k].to_remove
            /\ LogicalCell(call.all[k]) # TargetCell(call.all[k])
       /\ ~OnTarget(tiles[j])

\* one coordinate over an animation frame: a full step closer while more
\* than one step away, else exactly on the target
SteppedCloser(p, q, target) ==
  IF Abs(p - target) > ANIMATION_SPEED
  THEN Abs(q - target) = Abs(p - target) - ANIMATION_SPEED
  ELSE q = target

AnimFrame == pc = "frame" /\ ~Idle /\ tiles' # tiles

AllSettled(ts) ==
  \A i \in 1..Len(ts) : OnTarget(ts[i]) /\ ts[i].merge_anim_counter = 0

\* C17: once a move has started the animation, the loop reaches Idle again
\* with the spawn done (every tile on its target, every countdown 0), or
\* GameOver, or is quit; in every animation frame each tile gets one fixed
\* step closer to its target, or lands exactly on it when within one step
C17_AnimationTerminates ==
  /\ [][AnimFrame =>
          \A i \in 1..Len(tiles) :
             /\ tiles'[i].target_x = tiles[i].target_x
             /\ tiles'[i].target_y = tiles[i].target_y
             /\ SteppedCloser(tiles[i].x, tiles'[i].x, tiles[i].target_x)
             /\ SteppedCloser(tiles[i].y, tiles'[i].y, tiles[i].target_y)]_vars
  /\ [][(~Idle /\ Idle') => Settled]_vars
  /\ ~Idle ~>
       \/ pc = "exit"
       \/ Idle /\ AllSettled(tiles) /\ pc \in {"frame", "gameover"}

\* back in Idle after a move that slid tiles and merged a pair
C17_Witness ==
  /\ pc = "frame" /\ running /\ Idle /\ nSettle >= 1
  /\ call.op = "spawn_tile" /\ AllSettled(tiles)
  /\ \E i \in 1..Len(call.pre) : call.pre[i].merged
  /\ \E i \in 1..Len(call.pre) : ~call.pre[i].merged

SomeMoveSucceeds(ts) == \E dir \in DirectionSet : move(ts, dir).moved

\* C19: on a non-empty grid with one tile per cell can_move returns True
\* iff some direction makes move() return True; so in a running Idle state
\* some key is a legal move, and at GameOver no direction changes the grid
C19_CanMoveIffSomeMoveSucceeds ==
  /\ (call.op = "can_move" /\ Len(call.pre) >= 1 /\ CellsDistinct(call.pre)) =>
       (call.ret <=> SomeMoveSucceeds(call.pre))
  /\ (pc = "frame" /\ running /\ Idle) =>
       (can_move(tiles) /\ SomeMoveSucceeds(tiles))
  /\ pc = "gameover" => (~can_move(tiles) /\ ~SomeMoveSucceeds(tiles))

\* can_move was called on a full grid whose only equal neighbours lie side
\* by side: it returned True, and the legal moves are left and right alone
C19_Witness ==
  /\ call.op = "can_move" /\ call.ret
  /\ Len(call.pre) = ROWS * COLS /\ CellsDistinct(call.pre)
  /\ move(call.pre, "left").moved /\ move(call.pre, "right").moved
  /\ ~move(call.pre, "up").moved /\ ~move(call.pre, "down").moved

====
